---- MODULE Spec2Model ----
(***************************************************************************)
(* A model of the N-body simulation repository: the initial-condition      *)
(* generators (initializeParticles of the direct driver and of the FMM     *)
(* driver), the direct driver's frame loop (calculateAccelerations,        *)
(* storeFrame, updateParticles, finalizeVideo) and the benchmark harness   *)
(* of test.cpp (fmmMain, copy, storeFrame, finalizeVideo, direct, error).  *)
(*                                                                         *)
(* The module holds four machines over disjoint variables.  Each has its   *)
(* own specification; the variables of the other machines are parked.      *)
(*   SpecGen      the generator, called on freshly allocated arrays        *)
(*   SpecSim      the frame loop of the direct driver                      *)
(*   SpecHarness  the 25 iterations of the benchmark harness               *)
(*   SpecFmm      the frame loop of the FMM driver                         *)
(* Spec runs the direct driver or the harness, SpecLoops the direct driver *)
(* or the FMM driver.                                                      *)
(***************************************************************************)
EXTENDS Integers, Sequences, FiniteSets, TLC

VARIABLES
  \* ---- generator machine
  gVariant,     \* which driver's initializeParticles: "direct" | "fmm"
  gArr,         \* [bodyPos |-> array of vec4, bodyVel |-> array of vec3]
  gCalls,       \* number of initializeParticles calls made so far
  gType,        \* SimulationType of the last call
  gSeed,        \* what rd() seeded gen with in the last call
  gSeed2,       \* what rd() seeded gen with in the nested call (direct, default:)
  \* ---- direct driver (simulation) machine
  spc,          \* position in main: "calc" | "store" | "update" | "finalize" | "done"
  frame,        \* the loop variable of main
  bodyPos,      \* vec4 per body: x, y, z in length units, w = mass in mass units
  bodyVel,      \* vec3 per body
  bodyAccel,    \* vec3 per body
  pos0,         \* history: bodyPos as initializeParticles left it
  vel0,         \* history: bodyVel as initializeParticles left it
  pre,          \* history: [pos, vel, acc] just before the last updateParticles
  shadow,       \* history: [pos, vel] of the same run computed with no renderer
  \* ---- the renderer (used by the simulation and by the harness)
  videoWriter,  \* [isOpened, frames] and the history fields openFailed,
                \* lostFrame, shown (see NewWriter)
  \* ---- harness machine
  hpc,          \* position in the harness loop
  iteration,    \* the loop variable of test.cpp main
  numParticles, \* body count of the iteration
  maxParticles, \* capacity of the three arrays (set in fmm.h)
  hPos,         \* global bodyPos of the harness
  hAccel,       \* global bodyAccel
  hAcceld,      \* bodyAcceld
  L2norm,       \* as in main
  hist,         \* history of the harness run (see NewHist)
  \* ---- FMM driver machine (main of the FMM-driven simulation)
  fpc,          \* position in main: "clear" | "fmm" | "store" | "update" |
                \* "finalize" | "done" | "crashed"
  fframe,       \* the loop variable of main
  fBodyPos,     \* main's local bodyPos
  fBodyVel,     \* main's local bodyVel
  fBodyAccel,   \* main's local bodyAccel
  shared        \* the global bodyPos / bodyAccel of fmm.h the solver works on

genVars == <<gVariant, gArr, gCalls, gType, gSeed, gSeed2>>
simVars == <<spc, frame, bodyPos, bodyVel, bodyAccel, pos0, vel0, pre, shadow>>
harVars == <<hpc, iteration, numParticles, maxParticles, hPos, hAccel, hAcceld,
             L2norm, hist>>
fmmVars == <<fpc, fframe, fBodyPos, fBodyVel, fBodyAccel, shared>>
vars == <<genVars, simVars, videoWriter, harVars, fmmVars>>

(***************************************************************************)
(* PART 1.  initializeParticles.                                           *)
(*                                                                         *)
(* The values the generator writes are kept as the expressions the source  *)
(* computes, over rational literals, pi, G and the draws of the random     *)
(* source: <<"k", n, d>> is the literal n/d, <<"uniform", lo, hi, u>> the   *)
(* u-th quantile level of a uniform_real_distribution(lo, hi), and         *)
(* <<"mul", a, b>>, <<"cos", a>>, ... the operations.  Float rounding is   *)
(* not modelled.  A freshly allocated array holds <<"garbage", g>>.        *)
(***************************************************************************)

\* Number of bodies.  The source has 1000; the generator's loops need >= 10.
NUM_PARTICLES == 12
\* How many values rd() can return, and how many quantile levels a draw has.
NumSeeds == 4
DrawLevels == 4
\* How many times the generator is called on the same arrays.
MaxGenCalls == 2

Bodies == 0 .. (NUM_PARTICLES - 1)
Seeds == 0 .. (NumSeeds - 1)
Garbage == {0, 1}
SimulationType == {"RANDOM", "SPIRAL_GALAXY", "BINARY_SYSTEM", "SOLAR_SYSTEM"}

K(n, d) == <<"k", n, d>>
M_PI == <<"pi">>
G == <<"G">>
Neg(a) == <<"neg", a>>
Add(a, b) == <<"add", a, b>>
Sub(a, b) == <<"sub", a, b>>
Mul(a, b) == <<"mul", a, b>>
Div(a, b) == <<"div", a, b>>
Sqrt(a) == <<"sqrt", a>>
Cos(a) == <<"cos", a>>
Sin(a) == <<"sin", a>>
Uniform(lo, hi, u) == <<"uniform", lo, hi, u>>

\* The k-th value gen yields after being seeded with seed, as a quantile level.
Draw(seed, k) == ((seed + 1) * (k + 1) + seed) % DrawLevels

\* new vec4<float>[NUM_PARTICLES], new vec3<float>[NUM_PARTICLES]: indeterminate.
FreshArrays(g) ==
  [bodyPos |-> [i \in Bodies |-> [x |-> <<"garbage", g>>, y |-> <<"garbage", g>>,
                                  z |-> <<"garbage", g>>, w |-> <<"garbage", g>>]],
   bodyVel |-> [i \in Bodies |-> [x |-> <<"garbage", g>>, y |-> <<"garbage", g>>,
                                  z |-> <<"garbage", g>>]]]

\* case RANDOM: the loop over i, from index i on.
RECURSIVE RandomLoop(_, _, _)
RandomLoop(i, a, seed) ==
  IF i >= NUM_PARTICLES THEN a
  ELSE LET posDist(k) == Uniform(K(-10, 1), K(10, 1), Draw(seed, 7 * i + k))
           massDist(k) == Uniform(K(1, 10), K(1, 1), Draw(seed, 7 * i + k))
       IN RandomLoop(i + 1,
            [a EXCEPT !.bodyPos[i].x = posDist(0),
                      !.bodyPos[i].y = posDist(1),
                      !.bodyPos[i].z = posDist(2),
                      !.bodyPos[i].w = massDist(3),
                      !.bodyVel[i].x = Mul(posDist(4), K(1, 10)),
                      !.bodyVel[i].y = Mul(posDist(5), K(1, 10)),
                      !.bodyVel[i].z = Mul(posDist(6), K(1, 10))],
            seed)

\* SpiralCentre with the three assignments to bodyVel[0] left out.
SpiralCentreNoVel(a) ==
  [a EXCEPT !.bodyPos[0].x = K(0, 1), !.bodyPos[0].y = K(0, 1),
            !.bodyPos[0].z = K(0, 1), !.bodyPos[0].w = K(100, 1)]

\* case SPIRAL_GALAXY: the central black hole.
SpiralCentre(a) ==
  [a EXCEPT !.bodyPos[0].x = K(0, 1), !.bodyPos[0].y = K(0, 1),
            !.bodyPos[0].z = K(0, 1), !.bodyPos[0].w = K(100, 1),
            !.bodyVel[0].x = K(0, 1), !.bodyVel[0].y = K(0, 1),
            !.bodyVel[0].z = K(0, 1)]

\* case SPIRAL_GALAXY: the loop over i >= 1.
RECURSIVE SpiralLoop(_, _, _)
SpiralLoop(i, a, seed) ==
  IF i >= NUM_PARTICLES THEN a
  ELSE LET d(k) == Draw(seed, 4 * (i - 1) + k)
           angle == Uniform(K(0, 1), Mul(K(2, 1), M_PI), d(0))
           radius == Uniform(K(1, 10), K(10, 1), d(1))
           spiralFactor == Div(angle, K(10, 1))
           heightDist == Uniform(K(-5, 10), K(5, 10), d(2))
           massDist == Uniform(K(1, 10), K(1, 1), d(3))
           orbitalSpeed == Sqrt(Div(Mul(G, a.bodyPos[0].w), radius))
       IN SpiralLoop(i + 1,
            [a EXCEPT !.bodyPos[i].x = Mul(radius, Cos(Add(angle, spiralFactor))),
                      !.bodyPos[i].y = Mul(radius, Sin(Add(angle, spiralFactor))),
                      !.bodyPos[i].z = Mul(heightDist, Div(radius, K(10, 1))),
                      !.bodyPos[i].w = massDist,
                      !.bodyVel[i].x = Mul(Neg(orbitalSpeed), Sin(Add(angle, spiralFactor))),
                      !.bodyVel[i].y = Mul(orbitalSpeed, Cos(Add(angle, spiralFactor))),
                      !.bodyVel[i].z = K(0, 1)],
            seed)

\* case BINARY_SYSTEM (FMM driver only): the two stars.
BinaryStars(a) ==
  [a EXCEPT !.bodyPos[0].x = K(-2, 1), !.bodyPos[0].y = K(0, 1),
            !.bodyPos[0].z = K(0, 1), !.bodyPos[0].w = K(50, 1),
            !.bodyVel[0].x = K(0, 1), !.bodyVel[0].y = K(-1, 1),
            !.bodyVel[0].z = K(0, 1),
            !.bodyPos[1].x = K(2, 1), !.bodyPos[1].y = K(0, 1),
            !.bodyPos[1].z = K(0, 1), !.bodyPos[1].w = K(50, 1),
            !.bodyVel[1].x = K(0, 1), !.bodyVel[1].y = K(1, 1),
            !.bodyVel[1].z = K(0, 1)]

\* case BINARY_SYSTEM: the planets, i >= 2.
RECURSIVE BinaryLoop(_, _, _)
BinaryLoop(i, a, seed) ==
  IF i >= NUM_PARTICLES THEN a
  ELSE LET d(k) == Draw(seed, 4 * (i - 2) + k)
           angleDist(k) == Uniform(K(0, 1), Mul(K(2, 1), M_PI), d(k))
           angle == angleDist(0)
           radius == Uniform(K(3, 1), K(10, 1), d(1))
           massDist == Uniform(K(1, 10), K(5, 10), d(3))
           centerMass == Add(a.bodyPos[0].w, a.bodyPos[1].w)
           orbitalSpeed == Mul(Sqrt(Div(Mul(G, centerMass), radius)), K(7, 10))
       IN BinaryLoop(i + 1,
            [a EXCEPT !.bodyPos[i].x = Mul(radius, Cos(angle)),
                      !.bodyPos[i].y = Mul(radius, Sin(angle)),
                      !.bodyPos[i].z = Mul(Sub(angleDist(2), M_PI), K(1, 10)),
                      !.bodyPos[i].w = massDist,
                      !.bodyVel[i].x = Mul(Neg(orbitalSpeed), Sin(angle)),
                      !.bodyVel[i].y = Mul(orbitalSpeed, Cos(angle)),
                      !.bodyVel[i].z = K(0, 1)],
            seed)

planetRadii ==
  <<K(4, 10), K(7, 10), K(1, 1), K(15, 10), K(52, 10), K(95, 10), K(192, 10),
    K(301, 10), K(395, 10)>>
planetMasses ==
  <<K(55, 1000), K(815, 1000), K(1, 1), K(107, 1000), K(3178, 10), K(952, 10),
    K(145, 10), K(171, 10), K(2, 1000)>>

\* case SOLAR_SYSTEM (FMM driver only): the sun.
SolarSun(a) ==
  [a EXCEPT !.bodyPos[0].x = K(0, 1), !.bodyPos[0].y = K(0, 1),
            !.bodyPos[0].z = K(0, 1), !.bodyPos[0].w = K(50, 1),
            !.bodyVel[0].x = K(0, 1), !.bodyVel[0].y = K(0, 1),
            !.bodyVel[0].z = K(0, 1)]

\* case SOLAR_SYSTEM: the nine planets, i = 0..8, written at index i+1.
\* (planetRadii[i] of the source is planetRadii[i + 1] here: sequences start at 1.)
RECURSIVE SolarPlanets(_, _)
SolarPlanets(i, a) ==
  IF i >= 9 THEN a
  ELSE LET angle == Div(Mul(Mul(K(2, 1), M_PI), K(i, 1)), K(9, 1))
           orbitalSpeed ==
             Mul(Sqrt(Div(Mul(G, a.bodyPos[0].w), planetRadii[i + 1])), K(5, 10))
       IN SolarPlanets(i + 1,
            [a EXCEPT !.bodyPos[i + 1].x = Mul(planetRadii[i + 1], Cos(angle)),
                      !.bodyPos[i + 1].y = Mul(planetRadii[i + 1], Sin(angle)),
                      !.bodyPos[i + 1].z = K(0, 1),
                      !.bodyPos[i + 1].w = Add(K(5, 10), Mul(planetMasses[i + 1], K(1, 10))),
                      !.bodyVel[i + 1].x = Mul(Neg(orbitalSpeed), Sin(angle)),
                      !.bodyVel[i + 1].y = Mul(orbitalSpeed, Cos(angle)),
                      !.bodyVel[i + 1].z = K(0, 1)])

\* case SOLAR_SYSTEM: the debris, i >= 10.
RECURSIVE SolarDebris(_, _, _)
SolarDebris(i, a, seed) ==
  IF i >= NUM_PARTICLES THEN a
  ELSE LET d(k) == Draw(seed, 4 * (i - 10) + k)
           angle == Uniform(K(0, 1), Mul(K(2, 1), M_PI), d(0))
           radius == Uniform(K(3, 10), K(40, 1), d(1))
           heightDist == Uniform(K(-5, 10), K(5, 10), d(2))
           massDist == Uniform(K(1, 100), K(1, 10), d(3))
           orbitalSpeed == Mul(Sqrt(Div(Mul(G, a.bodyPos[0].w), radius)), K(5, 10))
       IN SolarDebris(i + 1,
            [a EXCEPT !.bodyPos[i].x = Mul(radius, Cos(angle)),
                      !.bodyPos[i].y = Mul(radius, Sin(angle)),
                      !.bodyPos[i].z = heightDist,
                      !.bodyPos[i].w = massDist,
                      !.bodyVel[i].x = Mul(Neg(orbitalSpeed), Sin(angle)),
                      !.bodyVel[i].y = Mul(orbitalSpeed, Cos(angle)),
                      !.bodyVel[i].z = K(0, 1)],
            seed)

\* initializeParticles of the FMM driver: all four cases are implemented.
initializeParticlesFmm(a, type, seed) ==
  CASE type = "RANDOM" -> RandomLoop(0, a, seed)
    [] type = "SPIRAL_GALAXY" -> SpiralLoop(1, SpiralCentre(a), seed)
    [] type = "BINARY_SYSTEM" -> BinaryLoop(2, BinaryStars(a), seed)
    [] type = "SOLAR_SYSTEM" -> SolarDebris(10, SolarPlanets(0, SolarSun(a)), seed)

\* initializeParticles of the direct driver: BINARY_SYSTEM and SOLAR_SYSTEM take
\* the default: branch, which calls initializeParticles(bodyPos, bodyVel, RANDOM);
\* the nested call seeds a generator of its own (seed2).
initializeParticlesDirect(a, type, seed, seed2) ==
  CASE type = "RANDOM" -> RandomLoop(0, a, seed)
    [] type = "SPIRAL_GALAXY" -> SpiralLoop(1, SpiralCentre(a), seed)
    [] OTHER -> RandomLoop(0, a, seed2)

GenInit ==
  /\ gVariant \in {"direct", "fmm"}
  /\ \E g \in Garbage : gArr = FreshArrays(g)
  /\ gCalls = 0
  /\ gType = "none"
  /\ gSeed = 0
  /\ gSeed2 = 0

\* A call of the direct driver's initializeParticles.
InitializeDirect ==
  /\ gVariant = "direct"
  /\ gCalls < MaxGenCalls
  /\ \E type \in SimulationType, seed \in Seeds, seed2 \in Seeds :
       /\ gArr' = initializeParticlesDirect(gArr, type, seed, seed2)
       /\ gType' = type
       /\ gSeed' = seed
       /\ gSeed2' = seed2
  /\ gCalls' = gCalls + 1
  /\ UNCHANGED <<gVariant, simVars, videoWriter, harVars, fmmVars>>

\* A call of the FMM driver's initializeParticles.
InitializeFmm ==
  /\ gVariant = "fmm"
  /\ gCalls < MaxGenCalls
  /\ \E type \in SimulationType, seed \in Seeds :
       /\ gArr' = initializeParticlesFmm(gArr, type, seed)
       /\ gType' = type
       /\ gSeed' = seed
       /\ gSeed2' = 0
  /\ gCalls' = gCalls + 1
  /\ UNCHANGED <<gVariant, simVars, videoWriter, harVars, fmmVars>>

GenNext == InitializeDirect \/ InitializeFmm

(***************************************************************************)
(* PART 2.  The direct driver: calculateAccelerations, updateParticles and *)
(* the frame loop of main.                                                 *)
(*                                                                         *)
(* Arithmetic is exact.  Every quantity is an integer count of a unit, and *)
(* the units are chosen so that the products the code forms land on the    *)
(* grid again:                                                             *)
(*     length 1/100, velocity 1, acceleration 100, mass 50,                *)
(*     invDistCube 200                                                     *)
(* (length * mass * invDistCube = acceleration, acceleration * TIME_STEP = *)
(* velocity, velocity * TIME_STEP = length).  The one value that is not    *)
(* rational, distSqr^(-3/2), is kept to the resolution of its unit         *)
(* (rounded toward zero), as the program keeps it to the resolution of a   *)
(* float.  A rational is a pair <<numerator, denominator>>.                *)
(***************************************************************************)

\* for (frame = 0; frame < NUM_FRAMES; frame++): the source has 300.
NUM_FRAMES == 3
\* The initial states of the driver: how many the random source can produce.
SimSeeds == 9

TIME_STEP == <<1, 100>>
softening == <<1, 10>>
Units == [len |-> <<1, 100>>, vel |-> <<1, 1>>, acc |-> <<100, 1>>,
          mass |-> <<50, 1>>, inv |-> <<200, 1>>]

\* n units of u, as a rational; the product of two rationals; a rational as a
\* count of the unit u (exact for every product the code forms on the grid).
R(n, u) == <<n * u[1], u[2]>>
RMul(a, b) == <<a[1] * b[1], a[2] * b[2]>>
In(r, u) == (r[1] * u[2]) \div (r[2] * u[1])

\* softening*softening in units of length^2.
SofteningSqr == In(RMul(softening, softening), RMul(Units.len, Units.len))

\* invDist * invDist * invDist with invDist = 1/sqrt(distSqr), in units of 200:
\* the largest k with (200 k)^2 * (distSqr / 10^4)^3 <= 1, that is
\* k^2 * distSqr^3 <= 25 * 10^6.  distSqr >= 100, so k <= 5; beyond 292 it is 0.
invDistCube(distSqr) ==
  IF distSqr > 292 THEN 0
  ELSE CHOOSE k \in 0 .. 5 :
         /\ k * k * distSqr * distSqr * distSqr <= 25000000
         /\ (k + 1) * (k + 1) * distSqr * distSqr * distSqr > 25000000

\* PairTerm with the mass of body i where the source has bodyPos[j].w.
PairTermOwnMass(p, i, j) ==
  LET dx == p[j].x - p[i].x
      dy == p[j].y - p[i].y
      dz == p[j].z - p[i].z
      distSqr == dx * dx + dy * dy + dz * dz + SofteningSqr
      s == RMul(R(p[i].w, Units.mass), R(invDistCube(distSqr), Units.inv))
  IN [x |-> In(RMul(R(dx, Units.len), s), Units.acc),
      y |-> In(RMul(R(dy, Units.len), s), Units.acc),
      z |-> In(RMul(R(dz, Units.len), s), Units.acc)]

\* The term body j adds to bodyAccel[i] (the body of the inner loop).
PairTerm(p, i, j) ==
  LET dx == p[j].x - p[i].x
      dy == p[j].y - p[i].y
      dz == p[j].z - p[i].z
      distSqr == dx * dx + dy * dy + dz * dz + SofteningSqr
      s == RMul(R(p[j].w, Units.mass), R(invDistCube(distSqr), Units.inv))
  IN [x |-> In(RMul(R(dx, Units.len), s), Units.acc),
      y |-> In(RMul(R(dy, Units.len), s), Units.acc),
      z |-> In(RMul(R(dz, Units.len), s), Units.acc)]

\* The inner loop over j for body i, from index j on, accumulating into a.
RECURSIVE AccumulateOver(_, _, _, _, _)
AccumulateOver(p, i, j, n, a) ==
  IF j >= n THEN a
  ELSE IF i = j THEN AccumulateOver(p, i, j + 1, n, a)
  ELSE LET t == PairTerm(p, i, j)
       IN AccumulateOver(p, i, j + 1, n,
                         [x |-> a.x + t.x, y |-> a.y + t.y, z |-> a.z + t.z])

\* calculateAccelerations without the clearing loop: accumulates into what the
\* output array held.
calculateAccelerationsNoClear(p, acc, n) ==
  [i \in DOMAIN acc |->
     IF i < n THEN AccumulateOver(p, i, 0, n, acc[i]) ELSE acc[i]]

\* calculateAccelerations(bodyPos, bodyAccel, numParticles): clears the first
\* numParticles entries of acc, then accumulates the pair terms into them.
calculateAccelerations(p, acc, n) ==
  LET cleared == [i \in DOMAIN acc |->
                    IF i < n THEN [x |-> 0, y |-> 0, z |-> 0] ELSE acc[i]]
  IN [i \in DOMAIN acc |->
        IF i < n THEN AccumulateOver(p, i, 0, n, cleared[i]) ELSE cleared[i]]

\* updateParticles with the position advanced by the velocity of before the step
\* (explicit Euler).
updateParticlesOldVel(p, v, a) ==
  LET step(q, u) == In(RMul(R(q, u), TIME_STEP), Units.len)
      newVel == [i \in Bodies |->
        [x |-> v[i].x + In(RMul(R(a[i].x, Units.acc), TIME_STEP), Units.vel),
         y |-> v[i].y + In(RMul(R(a[i].y, Units.acc), TIME_STEP), Units.vel),
         z |-> v[i].z + In(RMul(R(a[i].z, Units.acc), TIME_STEP), Units.vel)]]
  IN [pos |-> [i \in Bodies |->
                 [p[i] EXCEPT !.x = @ + step(v[i].x, Units.vel),
                              !.y = @ + step(v[i].y, Units.vel),
                              !.z = @ + step(v[i].z, Units.vel)]],
      vel |-> newVel]
\* updateParticles advancing all four fields of bodyPos[i], w by the z velocity.
updateParticlesTouchesMass(p, v, a) ==
  LET newVel == [i \in Bodies |->
        [x |-> v[i].x + In(RMul(R(a[i].x, Units.acc), TIME_STEP), Units.vel),
         y |-> v[i].y + In(RMul(R(a[i].y, Units.acc), TIME_STEP), Units.vel),
         z |-> v[i].z + In(RMul(R(a[i].z, Units.acc), TIME_STEP), Units.vel)]]
  IN [pos |-> [i \in Bodies |->
        [p[i] EXCEPT
           !.x = @ + In(RMul(R(newVel[i].x, Units.vel), TIME_STEP), Units.len),
           !.y = @ + In(RMul(R(newVel[i].y, Units.vel), TIME_STEP), Units.len),
           !.z = @ + In(RMul(R(newVel[i].z, Units.vel), TIME_STEP), Units.len),
           !.w = @ + In(RMul(R(newVel[i].z, Units.vel), TIME_STEP), Units.len)]],
      vel |-> newVel]

\* updateParticles(bodyPos, bodyVel, bodyAccel): velocity first, then position
\* from the velocity just written.  bodyPos[i].w is not assigned.
updateParticles(p, v, a) ==
  LET newVel == [i \in Bodies |->
        [x |-> v[i].x + In(RMul(R(a[i].x, Units.acc), TIME_STEP), Units.vel),
         y |-> v[i].y + In(RMul(R(a[i].y, Units.acc), TIME_STEP), Units.vel),
         z |-> v[i].z + In(RMul(R(a[i].z, Units.acc), TIME_STEP), Units.vel)]]
  IN [pos |-> [i \in Bodies |->
        [p[i] EXCEPT
           !.x = @ + In(RMul(R(newVel[i].x, Units.vel), TIME_STEP), Units.len),
           !.y = @ + In(RMul(R(newVel[i].y, Units.vel), TIME_STEP), Units.len),
           !.z = @ + In(RMul(R(newVel[i].z, Units.vel), TIME_STEP), Units.len)]],
      vel |-> newVel]

(***************************************************************************)
(* The renderer: storeFrame and finalizeVideo.  Whether videoWriter.open   *)
(* succeeds is the environment's choice (ok).  A write on a writer that is *)
(* not open writes nothing and returns.                                    *)
(***************************************************************************)

\* cv::VideoWriter videoWriter: not opened.  History fields: openFailed (an open
\* has failed), lostFrame (write was called while the writer was not open),
\* shown (the last frame composed: its number and the bodies it drew).
NewWriter ==
  [isOpened |-> FALSE, frames |-> 0, openFailed |-> FALSE, lostFrame |-> FALSE,
   shown |-> <<>>]

\* storeFrame(bodies, nBodies, frameNumber).
storeFrame(w, bodies, nBodies, frameNumber, ok) ==
  LET opened == IF frameNumber = 0
                THEN [w EXCEPT !.isOpened = ok,
                               !.frames = IF ok THEN 0 ELSE @,
                               !.openFailed = @ \/ ~ok]
                ELSE w
  IN IF frameNumber = 0 /\ ~opened.isOpened
     THEN opened
     ELSE [opened EXCEPT
             !.frames = IF opened.isOpened THEN @ + 1 ELSE @,
             !.lostFrame = @ \/ ~opened.isOpened,
             !.shown = <<frameNumber, nBodies, bodies>>]

\* finalizeVideo without the release.
finalizeVideoKeepsOpen(w) == w

\* finalizeVideo().
finalizeVideo(w) == IF w.isOpened THEN [w EXCEPT !.isOpened = FALSE] ELSE w

(***************************************************************************)
(* main of the direct driver.  The state after initializeParticles is      *)
(* drawn from the grid: body 0 is the centre SPIRAL_GALAXY writes (origin, *)
(* mass 100, at rest), the others take positions, masses and velocities    *)
(* from the random source.  bodyAccel is allocated and not initialized.    *)
(***************************************************************************)

Hash(seed, k, m) == ((seed + 1) * (k + 1) + seed * seed + k * k) % m

InitialBodies(seed) ==
  [pos |-> [i \in Bodies |->
              IF i = 0 THEN [x |-> 0, y |-> 0, z |-> 0, w |-> 2]
              ELSE [x |-> Hash(seed, 7 * i, 9) - 4,
                    y |-> Hash(seed, 7 * i + 1, 9) - 4,
                    z |-> Hash(seed, 7 * i + 2, 9) - 4,
                    w |-> Hash(seed, 7 * i + 3, 3)]],
   vel |-> [i \in Bodies |->
              IF i = 0 THEN [x |-> 0, y |-> 0, z |-> 0]
              ELSE [x |-> Hash(seed, 7 * i + 4, 3) - 1,
                    y |-> Hash(seed, 7 * i + 5, 3) - 1,
                    z |-> Hash(seed, 7 * i + 6, 3) - 1]]]

SimInit ==
  /\ spc = "calc"
  /\ frame = 0
  /\ \E seed \in 0 .. (SimSeeds - 1) :
       /\ bodyPos = InitialBodies(seed).pos
       /\ bodyVel = InitialBodies(seed).vel
  /\ pos0 = bodyPos
  /\ vel0 = bodyVel
  /\ \E g \in {-3, 5} : bodyAccel = [i \in Bodies |-> [x |-> g, y |-> g, z |-> g]]
  /\ pre = <<>>
  /\ shadow = [pos |-> bodyPos, vel |-> bodyVel]
  /\ videoWriter = NewWriter

\* calculateAccelerations(bodyPos, bodyAccel, NUM_PARTICLES);
SimCalculate ==
  /\ spc = "calc"
  /\ bodyAccel' = calculateAccelerations(bodyPos, bodyAccel, NUM_PARTICLES)
  /\ spc' = "store"
  /\ UNCHANGED <<frame, bodyPos, bodyVel, pos0, vel0, pre, shadow, videoWriter,
                 genVars, harVars, fmmVars>>

\* SimStoreFrame with a failed open ending the run (an exit or an uncaught throw).
SimStoreFrameAborts ==
  /\ spc = "store"
  /\ \E ok \in BOOLEAN :
       /\ videoWriter' = storeFrame(videoWriter, bodyPos, NUM_PARTICLES, frame, ok)
       /\ spc' = IF frame = 0 /\ ~ok THEN "done" ELSE "update"
  /\ UNCHANGED <<frame, bodyPos, bodyVel, bodyAccel, pos0, vel0, pre, shadow,
                 genVars, harVars, fmmVars>>

\* storeFrame(bodyPos, NUM_PARTICLES, frame);
SimStoreFrame ==
  /\ spc = "store"
  /\ \E ok \in BOOLEAN :
       videoWriter' = storeFrame(videoWriter, bodyPos, NUM_PARTICLES, frame, ok)
  /\ spc' = "update"
  /\ UNCHANGED <<frame, bodyPos, bodyVel, bodyAccel, pos0, vel0, pre, shadow,
                 genVars, harVars, fmmVars>>

\* updateParticles(bodyPos, bodyVel, bodyAccel); frame++ and the loop test.
SimUpdate ==
  /\ spc = "update"
  /\ LET r == updateParticles(bodyPos, bodyVel, bodyAccel)
     IN /\ bodyPos' = r.pos
        /\ bodyVel' = r.vel
  /\ pre' = [pos |-> bodyPos, vel |-> bodyVel, acc |-> bodyAccel]
  /\ LET a == calculateAccelerations(shadow.pos, bodyAccel, NUM_PARTICLES)
         r == updateParticles(shadow.pos, shadow.vel, a)
     IN shadow' = [pos |-> r.pos, vel |-> r.vel]
  /\ frame' = frame + 1
  /\ spc' = IF frame + 1 < NUM_FRAMES THEN "calc" ELSE "finalize"
  /\ UNCHANGED <<bodyAccel, pos0, vel0, videoWriter, genVars, harVars, fmmVars>>

\* finalizeVideo(); delete[] ...; return 0;
SimFinalize ==
  /\ spc = "finalize"
  /\ videoWriter' = finalizeVideo(videoWriter)
  /\ spc' = "done"
  /\ UNCHANGED <<frame, bodyPos, bodyVel, bodyAccel, pos0, vel0, pre, shadow,
                 genVars, harVars, fmmVars>>

SimNext == SimCalculate \/ SimStoreFrame \/ SimUpdate \/ SimFinalize

(***************************************************************************)
(* PART 3.  The benchmark harness, main of test.cpp.                       *)
(*                                                                         *)
(* The arrays hold up to 10^7 entries.  An array is kept as                *)
(* [head |-> entries 0 .. Tracked-1, tail |-> the common value of entries  *)
(* Tracked .. numParticles-1]: every loop of the harness treats each index *)
(* alike, and entries at and beyond numParticles are written before they   *)
(* are read.  fmmMain, kernel.direct and maxParticles are declared in      *)
(* fmm.h, which is not among the sources: the two solvers are modelled by  *)
(* their contract (each writes one acceleration per body into the shared   *)
(* bodyAccel and nothing else), maxParticles is whatever the header sets.  *)
(* Accelerations are small integers; L2norm is an exact rational, or one   *)
(* of the IEEE values inf and nan.                                         *)
(***************************************************************************)

\* How many leading entries of each array the model keeps one by one.
Tracked == 1
\* for (iteration = 0; iteration < 25; iteration++)
NumIterations == 25

HeadIdx == 0 .. (Tracked - 1)

\* numParticles = int(pow(10, (iteration + 32) / 8.0)) for iteration = 0 .. 24.
NumParticlesTable ==
  <<10000, 13335, 17782, 23713, 31622, 42169, 56234, 74989,
    100000, 133352, 177827, 237137, 316227, 421696, 562341, 749894,
    1000000, 1333521, 1778279, 2371373, 3162277, 4216965, 5623413, 7498942,
    10000000>>
NumParticlesAt(it) == NumParticlesTable[it + 1]

\* The capacities fmm.h may set.
MaxParticlesChoices == {10000000, 3000000}

Vec3(a, b, c) == [x |-> a, y |-> b, z |-> c]
AccelChoices == {Vec3(0, 0, 0), Vec3(1, 1, 0)}
AccelArrays == [head : [HeadIdx -> AccelChoices], tail : AccelChoices]
\* new vec3<float>[maxParticles]: indeterminate until written.
FreshAccel == [head |-> [i \in HeadIdx |-> Vec3(9, 9, 9)], tail |-> Vec3(9, 9, 9)]

\* bodyPos after the rand() loop of lines 22-27 (x, y, z in [-pi, pi], w in
\* [0, 1]); rand() is never seeded, so every run starts from the same bodies.
HarnessBodies ==
  [head |-> [i \in HeadIdx |-> [x |-> i - 1, y |-> 2, z |-> -3, w |-> 1]],
   tail |-> [x |-> 3, y |-> -1, z |-> 0, w |-> 0]]

\* ---- the double L2norm: [k, n, d, rt] is n/d, or its square root when rt.
Fin(n, d) == [k |-> "fin", n |-> n, d |-> d, rt |-> FALSE]
Inf == [k |-> "inf", n |-> 0, d |-> 1, rt |-> FALSE]
NaN == [k |-> "nan", n |-> 0, d |-> 1, rt |-> FALSE]
Uninit == [k |-> "uninit", n |-> 0, d |-> 1, rt |-> FALSE]

RECURSIVE Gcd(_, _)
Gcd(a, b) == IF b = 0 THEN a ELSE Gcd(b, a % b)
Reduce(n, d) == LET g == Gcd(n, d) IN Fin(n \div g, d \div g)

\* a + b on doubles (no negative values occur).
RealAdd(a, b) ==
  IF a.k = "nan" \/ b.k = "nan" THEN NaN
  ELSE IF a.k = "inf" \/ b.k = "inf" THEN Inf
  ELSE LET l == (a.d \div Gcd(a.d, b.d)) * b.d
       IN Reduce(a.n * (l \div a.d) + b.n * (l \div b.d), l)

\* difference/normalizer/numParticles.
ErrorTerm(difference, normalizer, n) ==
  IF normalizer = 0
  THEN (IF difference = 0 THEN NaN ELSE Inf)
  ELSE Reduce(difference, normalizer * n)

\* The sum of count equal terms.
Times(t, count) == IF t.k = "fin" THEN Reduce(t.n * count, t.d) ELSE t

\* sqrt(L2norm).
RealSqrt(a) == IF a.k = "fin" THEN [a EXCEPT !.rt = TRUE] ELSE a

\* Lines 70-78 for one body.
Difference(a, ad) ==
  (a.x - ad.x) * (a.x - ad.x) + (a.y - ad.y) * (a.y - ad.y)
    + (a.z - ad.z) * (a.z - ad.z)
Normalizer(a) == a.x * a.x + a.y * a.y + a.z * a.z

\* The loop of lines 69-80 over the head, from index i on.
RECURSIVE ErrorLoop(_, _, _, _, _)
ErrorLoop(i, accel, acceld, n, sum) ==
  IF i >= Tracked \/ i >= n THEN sum
  ELSE ErrorLoop(i + 1, accel, acceld, n,
         RealAdd(sum, ErrorTerm(Difference(accel.head[i], acceld.head[i]),
                                Normalizer(accel.head[i]), n)))

\* Lines 68-81: L2norm = 0; the loop over all i < numParticles; L2norm = sqrt(L2norm).
ErrorMetric(accel, acceld, n) ==
  LET headSum == ErrorLoop(0, accel, acceld, n, Fin(0, 1))
      tailTerm == ErrorTerm(Difference(accel.tail, acceld.tail),
                            Normalizer(accel.tail), n)
  IN RealSqrt(IF n > Tracked
              THEN RealAdd(headSum, Times(tailTerm, n - Tracked))
              ELSE headSum)

\* Whether the loop of lines 69-80 divides by a zero normalizer.
DividesByZero(accel, n) ==
  \/ \E i \in HeadIdx : i < n /\ Normalizer(accel.head[i]) = 0
  \/ n > Tracked /\ Normalizer(accel.tail) = 0

\* CopyAccel with the loop started at i = 1.
CopyAccelSkipFirst(accel, acceld, n) ==
  [head |-> [i \in HeadIdx |-> IF 0 < i /\ i < n THEN accel.head[i] ELSE acceld.head[i]],
   tail |-> IF n > Tracked THEN accel.tail ELSE acceld.tail]
\* Lines 50-54: bodyAcceld[i] = bodyAccel[i] for i < numParticles.
CopyAccel(accel, acceld, n) ==
  [head |-> [i \in HeadIdx |-> IF i < n THEN accel.head[i] ELSE acceld.head[i]],
   tail |-> IF n > Tracked THEN accel.tail ELSE acceld.tail]

\* History of a harness run: the bodies as first generated, what each solver
\* produced in the current iteration, whether the error loop divided by zero,
\* whether an array was indexed at or beyond maxParticles.
NewHist(bodies) ==
  [pos0 |-> bodies, fmmOut |-> <<>>, directOut |-> <<>>, divByZero |-> FALSE,
   oob |-> FALSE]

HarInit ==
  /\ hpc = "pick"
  /\ iteration = 0
  /\ numParticles = 0
  /\ maxParticles \in MaxParticlesChoices
  /\ hPos = HarnessBodies
  /\ hAccel = FreshAccel
  /\ hAcceld = FreshAccel
  /\ L2norm = Uninit
  /\ hist = NewHist(hPos)
  /\ videoWriter = NewWriter

\* An access at an index >= maxParticles is undefined: the run goes on, or dies.
AfterAccess(outOfBounds, next) == IF outOfBounds THEN {next, "crashed"} ELSE {next}

\* Line 35: numParticles = int(pow(10,(iteration+32)/8.0));
HarPick ==
  /\ hpc = "pick"
  /\ numParticles' = NumParticlesAt(iteration)
  /\ hist' = [hist EXCEPT !.fmmOut = <<>>, !.directOut = <<>>]
  /\ hpc' = "store0"
  /\ UNCHANGED <<iteration, maxParticles, hPos, hAccel, hAcceld, L2norm,
                 videoWriter, genVars, simVars, fmmVars>>

\* Line 40: storeFrame(bodyPos, numParticles, 0); it reads bodies[i], i < nBodies,
\* once the writer is open.
HarStoreFirst ==
  /\ hpc = "store0"
  /\ \E ok \in BOOLEAN :
       /\ videoWriter' = storeFrame(videoWriter, hPos, numParticles, 0, ok)
       /\ LET bad == ok /\ numParticles > maxParticles
          IN /\ hist' = [hist EXCEPT !.oob = @ \/ bad]
             /\ hpc' \in AfterAccess(bad, "fmm")
  /\ UNCHANGED <<iteration, numParticles, maxParticles, hPos, hAccel, hAcceld,
                 L2norm, genVars, simVars, fmmVars>>

\* Line 44: tree.fmmMain(numParticles, treeOrFMM);
HarFmmMain ==
  /\ hpc = "fmm"
  /\ \E out \in AccelArrays :
       /\ hAccel' = out
       /\ hist' = [hist EXCEPT !.fmmOut = out]
  /\ hpc' = "copy"
  /\ UNCHANGED <<iteration, numParticles, maxParticles, hPos, hAcceld, L2norm,
                 videoWriter, genVars, simVars, fmmVars>>

\* Lines 50-54: the copy into bodyAcceld.
HarCopy ==
  /\ hpc = "copy"
  /\ hAcceld' = CopyAccel(hAccel, hAcceld, numParticles)
  /\ LET bad == numParticles > maxParticles
     IN /\ hist' = [hist EXCEPT !.oob = @ \/ bad]
        /\ hpc' \in AfterAccess(bad, "store1")
  /\ UNCHANGED <<iteration, numParticles, maxParticles, hPos, hAccel, L2norm,
                 videoWriter, genVars, simVars, fmmVars>>

\* Line 58: storeFrame(bodyPos, numParticles, 1);
HarStoreLast ==
  /\ hpc = "store1"
  /\ videoWriter' = storeFrame(videoWriter, hPos, numParticles, 1, TRUE)
  /\ LET bad == numParticles > maxParticles
     IN /\ hist' = [hist EXCEPT !.oob = @ \/ bad]
        /\ hpc' \in AfterAccess(bad, "finalize")
  /\ UNCHANGED <<iteration, numParticles, maxParticles, hPos, hAccel, hAcceld,
                 L2norm, genVars, simVars, fmmVars>>

\* Line 59: finalizeVideo();
HarFinalize ==
  /\ hpc = "finalize"
  /\ videoWriter' = finalizeVideo(videoWriter)
  /\ hpc' = "direct"
  /\ UNCHANGED <<iteration, numParticles, maxParticles, hPos, hAccel, hAcceld,
                 L2norm, hist, genVars, simVars, fmmVars>>

\* Line 63: kernel.direct(numParticles);
HarDirect ==
  /\ hpc = "direct"
  /\ \E out \in AccelArrays :
       /\ hAccel' = out
       /\ hist' = [hist EXCEPT !.directOut = out]
  /\ hpc' = "error"
  /\ UNCHANGED <<iteration, numParticles, maxParticles, hPos, hAcceld, L2norm,
                 videoWriter, genVars, simVars, fmmVars>>

\* Lines 68-82: the error of the iteration; then iteration++ and the loop test.
HarError ==
  /\ hpc = "error"
  /\ L2norm' = ErrorMetric(hAccel, hAcceld, numParticles)
  /\ iteration' = iteration + 1
  /\ LET bad == numParticles > maxParticles
         next == IF iteration + 1 < NumIterations THEN "pick" ELSE "done"
     IN /\ hist' = [hist EXCEPT !.oob = @ \/ bad,
                                !.divByZero = @ \/ DividesByZero(hAccel, numParticles)]
        /\ hpc' \in AfterAccess(bad, next)
  /\ UNCHANGED <<numParticles, maxParticles, hPos, hAccel, hAcceld,
                 videoWriter, genVars, simVars, fmmVars>>

HarNext ==
  \/ HarPick \/ HarStoreFirst \/ HarFmmMain \/ HarCopy \/ HarStoreLast
  \/ HarFinalize \/ HarDirect \/ HarError

(***************************************************************************)
(* PART 3b.  The FMM driver: main of the FMM-driven simulation.            *)
(*                                                                         *)
(* main declares bodyPos, bodyVel and bodyAccel as locals, which hide the  *)
(* globals bodyPos and bodyAccel of fmm.h.  tree.fmmMain(NUM_PARTICLES, 1) *)
(* takes no array: it works on the globals.  fmm.h is not among the        *)
(* sources, so the solver is modelled by its contract: it reads the shared *)
(* position array and leaves one acceleration per body in the shared       *)
(* acceleration array (the approximation error is not modelled: the values *)
(* are those of the direct sum).  The driver never allocates the globals   *)
(* (the harness does, in its own main).  Either nothing allocates them,    *)
(* and the solver's accesses are undefined: the run dies or goes on with   *)
(* nothing written to the locals; or the header's own code provides them,  *)
(* holding whatever the allocation left.                                   *)
(***************************************************************************)

\* The contents an allocation of the shared arrays leaves in them.
SharedContents(g) ==
  [alloc |-> TRUE,
   pos   |-> [i \in Bodies |-> [x |-> Hash(g, 3 * i, 5) - 2,
                                y |-> Hash(g, 3 * i + 1, 5) - 2,
                                z |-> Hash(g, 3 * i + 2, 5) - 2,
                                w |-> 1]],
   accel |-> [i \in Bodies |-> [x |-> g, y |-> g, z |-> g]]]
SharedChoices ==
  {[alloc |-> FALSE, pos |-> <<>>, accel |-> <<>>]}
    \cup {SharedContents(g) : g \in {1, 2}}

\* tree.fmmMain(n, variant) on allocated shared arrays, by its contract.
fmmMain(sh, n) ==
  [sh EXCEPT !.accel = calculateAccelerations(sh.pos, sh.accel, n)]

ZeroAccel == [i \in Bodies |-> [x |-> 0, y |-> 0, z |-> 0]]

FmmInit ==
  /\ fpc = "clear"
  /\ fframe = 0
  /\ \E seed \in 0 .. (SimSeeds - 1) :
       /\ fBodyPos = InitialBodies(seed).pos
       /\ fBodyVel = InitialBodies(seed).vel
  /\ \E g \in {-3, 5} : fBodyAccel = [i \in Bodies |-> [x |-> g, y |-> g, z |-> g]]
  /\ shared \in SharedChoices
  /\ videoWriter = NewWriter

\* The clearing loop of the frame: bodyAccel[i].x = 0; ... on the local array.
FmmClear ==
  /\ fpc = "clear"
  /\ fBodyAccel' = ZeroAccel
  /\ fpc' = "fmm"
  /\ UNCHANGED <<fframe, fBodyPos, fBodyVel, shared, videoWriter,
                 genVars, simVars, harVars>>

\* tree.fmmMain(NUM_PARTICLES, 1);
FmmSolverCall ==
  /\ fpc = "fmm"
  /\ IF shared.alloc
     THEN /\ shared' = fmmMain(shared, NUM_PARTICLES)
          /\ fpc' = "store"
     ELSE /\ shared' = shared
          /\ fpc' \in {"store", "crashed"}
  /\ UNCHANGED <<fframe, fBodyPos, fBodyVel, fBodyAccel, videoWriter,
                 genVars, simVars, harVars>>

\* storeFrame(bodyPos, NUM_PARTICLES, frame);
FmmStoreFrame ==
  /\ fpc = "store"
  /\ \E ok \in BOOLEAN :
       videoWriter' = storeFrame(videoWriter, fBodyPos, NUM_PARTICLES, fframe, ok)
  /\ fpc' = "update"
  /\ UNCHANGED <<fframe, fBodyPos, fBodyVel, fBodyAccel, shared,
                 genVars, simVars, harVars>>

\* updateParticles(bodyPos, bodyVel, bodyAccel); frame++ and the loop test.
FmmUpdate ==
  /\ fpc = "update"
  /\ LET r == updateParticles(fBodyPos, fBodyVel, fBodyAccel)
     IN /\ fBodyPos' = r.pos
        /\ fBodyVel' = r.vel
  /\ fframe' = fframe + 1
  /\ fpc' = IF fframe + 1 < NUM_FRAMES THEN "clear" ELSE "finalize"
  /\ UNCHANGED <<fBodyAccel, shared, videoWriter, genVars, simVars, harVars>>

\* finalizeVideo(); delete[] ...; return 0;
FmmFinalize ==
  /\ fpc = "finalize"
  /\ videoWriter' = finalizeVideo(videoWriter)
  /\ fpc' = "done"
  /\ UNCHANGED <<fframe, fBodyPos, fBodyVel, fBodyAccel, shared,
                 genVars, simVars, harVars>>

FmmNext ==
  \/ FmmClear \/ FmmSolverCall \/ FmmStoreFrame \/ FmmUpdate \/ FmmFinalize

(***************************************************************************)
(* The specifications.                                                     *)
(***************************************************************************)

GenParked ==
  /\ gVariant = "none" /\ gArr = <<>> /\ gCalls = 0 /\ gType = "none"
  /\ gSeed = 0 /\ gSeed2 = 0
SimParked ==
  /\ spc = "none" /\ frame = 0 /\ bodyPos = <<>> /\ bodyVel = <<>>
  /\ bodyAccel = <<>> /\ pos0 = <<>> /\ vel0 = <<>> /\ pre = <<>>
  /\ shadow = <<>>
HarParked ==
  /\ hpc = "none" /\ iteration = 0 /\ numParticles = 0 /\ maxParticles = 0
  /\ hPos = <<>> /\ hAccel = <<>> /\ hAcceld = <<>> /\ L2norm = Uninit
  /\ hist = <<>>

FmmParked ==
  /\ fpc = "none" /\ fframe = 0 /\ fBodyPos = <<>> /\ fBodyVel = <<>>
  /\ fBodyAccel = <<>> /\ shared = <<>>

InitGen == GenInit /\ SimParked /\ HarParked /\ FmmParked /\ videoWriter = NewWriter
InitSim == SimInit /\ GenParked /\ HarParked /\ FmmParked
InitHarness == HarInit /\ GenParked /\ SimParked /\ FmmParked
Init == InitSim \/ InitHarness
Next == SimNext \/ HarNext

InitFmm == FmmInit /\ GenParked /\ SimParked /\ HarParked
SpecFmm == InitFmm /\ [][FmmNext]_vars

\* The two continuous-simulation drivers, each running its loop to the end.
InitLoops == InitSim \/ InitFmm
LoopNext == SimNext \/ FmmNext
\* A running program does not stay at a statement for ever: main is a single
\* thread, and each of its calls returns (or the run dies in fmmMain).
LoopProgress ==
  \A at \in {"calc", "clear", "fmm", "store", "update", "finalize"} :
    []<>(spc # at) /\ []<>(fpc # at)
SpecLoops == InitLoops /\ [][LoopNext]_vars /\ LoopProgress

SpecGen == InitGen /\ [][GenNext]_vars
SpecSim == InitSim /\ [][SimNext]_vars
SpecHarness == InitHarness /\ [][HarNext]_vars
Spec == Init /\ [][Next]_vars

(***************************************************************************)
(* PART 4.  The properties.                                                *)
(***************************************************************************)

Abs(n) == IF n < 0 THEN -n ELSE n
\* Sum and equality of rationals <<numerator, denominator>>, denominators > 0.
RAdd(a, b) ==
  LET l == (a[2] \div Gcd(a[2], b[2])) * b[2]
      n == a[1] * (l \div a[2]) + b[1] * (l \div b[2])
      g == Gcd(Abs(n), l)
  IN <<n \div g, l \div g>>
REq(a, b) == a[1] * b[2] = b[1] * a[2]

Zero == K(0, 1)

\* C1: after initializeParticles with BINARY_SYSTEM, bodies 0 and 1 have mass 50,
\* positions (-2,0,0) and (2,0,0) and velocities (0,-1,0) and (0,1,0); with
\* SOLAR_SYSTEM, body 0 is at the origin with mass 50 and at rest; whatever the
\* random source yields, in the direct driver and in the FMM driver alike.
C1_FixedBodies ==
  gCalls > 0 =>
    /\ gType = "BINARY_SYSTEM" =>
         /\ gArr.bodyPos[0] = [x |-> K(-2, 1), y |-> Zero, z |-> Zero, w |-> K(50, 1)]
         /\ gArr.bodyPos[1] = [x |-> K(2, 1), y |-> Zero, z |-> Zero, w |-> K(50, 1)]
         /\ gArr.bodyVel[0] = [x |-> Zero, y |-> K(-1, 1), z |-> Zero]
         /\ gArr.bodyVel[1] = [x |-> Zero, y |-> K(1, 1), z |-> Zero]
    /\ gType = "SOLAR_SYSTEM" =>
         /\ gArr.bodyPos[0] = [x |-> Zero, y |-> Zero, z |-> Zero, w |-> K(50, 1)]
         /\ gArr.bodyVel[0] = [x |-> Zero, y |-> Zero, z |-> Zero]

\* C2: no array of the harness is indexed at or beyond maxParticles in any
\* iteration: a body count above the capacity ends the run before the access.
C2_NoOutOfBounds == ~hist.oob

\* C3: the error loop never divides by a zero normalizer, and L2norm never
\* takes a non-finite value.
C3_NoZeroDivision == ~hist.divByZero /\ L2norm.k \in {"fin", "uninit"}

\* C4: when the two acceleration arrays the error loop compares are equal entry
\* by entry, the error it computes is exactly 0.
C4_IdenticalGivesZero ==
  (hpc \in {"pick", "done"} /\ iteration > 0 /\ hAccel = hAcceld) =>
    (L2norm.k = "fin" /\ L2norm.n = 0)

\* C5: where the error is computed, bodyAcceld holds what fmmMain produced in
\* this iteration and bodyAccel holds what the direct evaluator produced in this
\* iteration, for every body of the iteration.
C5_BuffersAtError ==
  hpc = "error" => (hAcceld = hist.fmmOut /\ hAccel = hist.directOut)
C5_Witness ==
  hpc = "error" /\ iteration > 0 /\ hist.fmmOut # hist.directOut /\ hAcceld # hAccel

\* C6: after updateParticles every velocity component is v + a*TIME_STEP and
\* every position component is p + (v + a*TIME_STEP)*TIME_STEP, with p, v, a the
\* values of before the step.
C6_SemiImplicitEuler ==
  frame > 0 =>
    \A i \in Bodies : \A c \in {"x", "y", "z"} :
      LET v == R(pre.vel[i][c], Units.vel)
          a == R(pre.acc[i][c], Units.acc)
          q == R(pre.pos[i][c], Units.len)
          vNew == RAdd(v, RMul(a, TIME_STEP))
      IN /\ REq(R(bodyVel[i][c], Units.vel), vNew)
         /\ REq(R(bodyPos[i][c], Units.len), RAdd(q, RMul(vNew, TIME_STEP)))
C6_Witness ==
  /\ frame > 0
  /\ \E i \in Bodies : pre.acc[i].x # 0 /\ pre.vel[i].x # 0
                       /\ bodyPos[i].x # pre.pos[i].x + pre.vel[i].x

\* C7: in every state of a simulation run and of a harness run, the mass of
\* every body is the mass initialization gave it.
C7_MassUnchanged ==
  /\ spc # "none" => \A i \in Bodies : bodyPos[i].w = pos0[i].w
  /\ hpc # "none" =>
       /\ \A i \in HeadIdx : hPos.head[i].w = hist.pos0.head[i].w
       /\ hPos.tail.w = hist.pos0.tail.w
C7_Witness ==
  /\ spc = "done"
  /\ \E i \in Bodies : bodyPos[i].w > 0 /\ bodyPos[i].z # pos0[i].z
                       /\ bodyVel[i].z # 0

\* Sum over the bodies of mass times the vector u[i], per component.
RECURSIVE WeightedSum(_, _, _, _)
WeightedSum(p, u, c, i) ==
  IF i >= NUM_PARTICLES THEN 0 ELSE p[i].w * u[i][c] + WeightedSum(p, u, c, i + 1)

\* C8: the mass-weighted sum of the accelerations calculateAccelerations
\* produces is the zero vector; for two bodies of equal mass the two
\* accelerations are opposite; and the total momentum after any number of
\* frames is the initial total momentum.
C8_MomentumConserved ==
  spc # "none" =>
    /\ spc \in {"store", "update"} =>
         \A c \in {"x", "y", "z"} : WeightedSum(bodyPos, bodyAccel, c, 0) = 0
    /\ \A c \in {"x", "y", "z"} :
         WeightedSum(bodyPos, bodyVel, c, 0) = WeightedSum(pos0, vel0, c, 0)
    /\ bodyPos[0].w = bodyPos[1].w =>
         LET two == calculateAccelerations(bodyPos, bodyAccel, 2)
         IN \A c \in {"x", "y", "z"} : two[0][c] = -two[1][c]
C8_Witness ==
  /\ spc = "done"
  /\ \E i, j \in Bodies :
       /\ bodyPos[i].w > 0 /\ bodyPos[j].w > bodyPos[i].w
       /\ bodyVel[i].x # vel0[i].x /\ bodyVel[j].x # vel0[j].x
  /\ bodyPos[0].w = bodyPos[1].w
  /\ calculateAccelerations(pos0, bodyAccel, 2)[0] # [x |-> 0, y |-> 0, z |-> 0]

\* C9: whether or not the video writer opens, the driver runs all its frames
\* (the harness all its iterations) and the positions, velocities and
\* accelerations at every step are those of the computation alone.
C9_RenderingNeverAltersPhysics ==
  /\ spc # "none" =>
       /\ bodyPos = shadow.pos
       /\ bodyVel = shadow.vel
       /\ spc \in {"store", "update"} =>
            bodyAccel = calculateAccelerations(shadow.pos, bodyAccel, NUM_PARTICLES)
       /\ spc = "done" => frame = NUM_FRAMES
  /\ hpc # "none" =>
       /\ hPos = hist.pos0
       /\ hpc \in {"store1", "finalize"} =>
            (hAccel = hist.fmmOut /\ hAcceld = hist.fmmOut)
       /\ hpc = "done" => iteration = NumIterations
C9_Witness ==
  /\ spc = "done"
  /\ videoWriter.openFailed
  /\ videoWriter.lostFrame
  /\ bodyPos # pos0

\* The arrays the last call would have produced had it started from a.
Generated(a) ==
  IF gVariant = "direct"
  THEN initializeParticlesDirect(a, gType, gSeed, gSeed2)
  ELSE initializeParticlesFmm(a, gType, gSeed)

\* C10: for each of the four types initializeParticles writes every field of
\* every body, and what it writes does not depend on what the arrays held.
C10_FullOverwrite ==
  gCalls > 0 =>
    /\ \A g \in Garbage : gArr = Generated(FreshArrays(g))
    /\ \A i \in Bodies :
         /\ \A c \in {"x", "y", "z", "w"} : gArr.bodyPos[i][c][1] # "garbage"
         /\ \A c \in {"x", "y", "z"} : gArr.bodyVel[i][c][1] # "garbage"
C10_Witness ==
  /\ gCalls = 2
  /\ gType = "SPIRAL_GALAXY"
  /\ gArr.bodyVel[1].y[1] = "mul"

\* C11: calculateAccelerations fully recomputes its output.  Whatever the
\* output array held before the call (the uninitialized allocation, any
\* constant array, or the accelerations of the frame before), the call leaves
\* the same accelerations for the same positions and masses; a second call
\* right after the first changes nothing; the call leaves bodyPos (positions
\* and masses) and bodyVel as they were.
PriorContents ==
  {[i \in Bodies |-> [x |-> g, y |-> g, z |-> g]] : g \in {-3, 0, 5}}
C11_FullRecompute ==
  [][spc = "calc" =>
       /\ \A prior \in PriorContents :
            calculateAccelerations(bodyPos, prior, NUM_PARTICLES) = bodyAccel'
       /\ calculateAccelerations(bodyPos', bodyAccel', NUM_PARTICLES) = bodyAccel'
       /\ bodyPos' = bodyPos
       /\ bodyVel' = bodyVel]_vars
\* A call in a later frame found the nonzero accelerations of the frame before
\* in the output array and has replaced them by different ones.
C11_Witness ==
  /\ spc = "store" /\ frame >= 1
  /\ pre # <<>> /\ pre.acc # bodyAccel
  /\ \E i \in Bodies : pre.acc[i] # [x |-> 0, y |-> 0, z |-> 0]

\* C12: in the FMM-driven simulation the driver's buffers are the solver's.
\* In every frame, once tree.fmmMain has returned (at storeFrame and at
\* updateParticles), the solver had shared arrays to work on, the positions
\* it read are the positions the driver renders and advances, the
\* accelerations it left are the array updateParticles integrates, and that
\* array holds the solver's result for the driver's positions.
C12_SolverBuffersAreDriverBuffers ==
  fpc \in {"store", "update"} =>
    /\ shared.alloc
    /\ shared.pos = fBodyPos
    /\ shared.accel = fBodyAccel
    /\ fBodyAccel = calculateAccelerations(fBodyPos, fBodyAccel, NUM_PARTICLES)

\* C13: the life cycle of the video writer in the direct driver and in the
\* harness.  A frame reaches the writer only while it is open: the count of
\* written frames changes only in a storeFrame call, by one frame on a writer
\* that was open, or to one on a writer the same call (frameNumber 0) has just
\* opened.  The writer is opened only by a storeFrame call with frameNumber 0
\* and released only by finalizeVideo.  With every open successful, each frame
\* composed so far has been written.  A write attempted on a writer that is not
\* open happens only after a failed open, and stores no frame.  The harness
\* holds the writer released between iterations, and both programs leave it
\* released when they return.
C13_WriterState ==
  /\ videoWriter.lostFrame => videoWriter.openFailed
  /\ spc = "done" => ~videoWriter.isOpened
  /\ (spc \in {"calc", "store", "finalize"} /\ ~videoWriter.openFailed) =>
        /\ videoWriter.frames = frame
        /\ frame > 0 => videoWriter.isOpened
  /\ (spc = "update" /\ ~videoWriter.openFailed) =>
        (videoWriter.isOpened /\ videoWriter.frames = frame + 1)
  /\ hpc \in {"pick", "store0", "direct", "error", "done"} =>
        ~videoWriter.isOpened
  /\ (hpc \in {"fmm", "copy", "store1"} /\ videoWriter.isOpened) =>
        videoWriter.frames = 1
  /\ (hpc = "finalize" /\ videoWriter.isOpened) => videoWriter.frames = 2
C13_WriterStep ==
  /\ videoWriter'.frames # videoWriter.frames =>
        /\ spc = "store" \/ hpc \in {"store0", "store1"}
        /\ videoWriter'.isOpened
        /\ \/ videoWriter.isOpened /\ videoWriter'.frames = videoWriter.frames + 1
           \/ /\ ~videoWriter.isOpened /\ videoWriter'.frames = 1
              /\ (spc = "store" /\ frame = 0) \/ hpc = "store0"
  /\ (~videoWriter.isOpened /\ videoWriter'.isOpened) =>
        ((spc = "store" /\ frame = 0) \/ hpc = "store0")
  /\ (videoWriter.isOpened /\ ~videoWriter'.isOpened) =>
        (spc = "finalize" \/ hpc = "finalize")
C13_WriterLifecycle == []C13_WriterState /\ [][C13_WriterStep]_vars
\* The harness has written two frames, released the writer, and in the next
\* iteration opened it again and written the first frame.
C13_Witness ==
  /\ hpc = "fmm" /\ iteration = 1
  /\ videoWriter.isOpened /\ videoWriter.frames = 1
  /\ ~videoWriter.openFailed

\* C14: the frame loop of the continuous simulation, in both drivers.  Each
\* frame is force evaluation, then storeFrame, then updateParticles; positions
\* and velocities change only in updateParticles, which is the step that
\* increments the frame index, so the frame composed with index f draws the
\* positions after exactly f integration steps; the accelerations
\* updateParticles integrates are the ones the force evaluation gives for
\* those same positions; the loop is left when the index reaches NUM_FRAMES,
\* finalizeVideo is called once, and the run ends.
C14_DirectStep ==
  /\ spc = "calc" =>
        /\ spc' = "store" /\ frame' = frame
        /\ bodyPos' = bodyPos /\ bodyVel' = bodyVel
        /\ bodyAccel' = calculateAccelerations(bodyPos, bodyAccel, NUM_PARTICLES)
  /\ spc = "store" =>
        /\ spc' = "update" /\ frame' = frame
        /\ bodyPos' = bodyPos /\ bodyVel' = bodyVel /\ bodyAccel' = bodyAccel
        /\ videoWriter'.shown # videoWriter.shown =>
             videoWriter'.shown = <<frame, NUM_PARTICLES, bodyPos>>
  /\ spc = "update" =>
        /\ bodyAccel = calculateAccelerations(bodyPos, bodyAccel, NUM_PARTICLES)
        /\ bodyPos' = updateParticles(bodyPos, bodyVel, bodyAccel).pos
        /\ bodyVel' = updateParticles(bodyPos, bodyVel, bodyAccel).vel
        /\ frame' = frame + 1
        /\ spc' = IF frame' < NUM_FRAMES THEN "calc" ELSE "finalize"
  /\ spc = "finalize" =>
        /\ frame = NUM_FRAMES /\ frame' = frame
        /\ bodyPos' = bodyPos /\ bodyVel' = bodyVel
        /\ videoWriter' = finalizeVideo(videoWriter)
        /\ spc' = "done"
  /\ spc = "done" => FALSE
C14_FmmStep ==
  /\ fpc = "clear" =>
        /\ fpc' = "fmm" /\ fframe' = fframe
        /\ fBodyPos' = fBodyPos /\ fBodyVel' = fBodyVel
  /\ fpc = "fmm" =>
        /\ fpc' = "store" /\ fframe' = fframe
        /\ fBodyPos' = fBodyPos /\ fBodyVel' = fBodyVel
  /\ fpc = "store" =>
        /\ fpc' = "update" /\ fframe' = fframe
        /\ fBodyPos' = fBodyPos /\ fBodyVel' = fBodyVel
        /\ fBodyAccel' = fBodyAccel
        /\ videoWriter'.shown # videoWriter.shown =>
             videoWriter'.shown = <<fframe, NUM_PARTICLES, fBodyPos>>
  /\ fpc = "update" =>
        /\ fBodyAccel = calculateAccelerations(fBodyPos, fBodyAccel, NUM_PARTICLES)
        /\ fBodyPos' = updateParticles(fBodyPos, fBodyVel, fBodyAccel).pos
        /\ fBodyVel' = updateParticles(fBodyPos, fBodyVel, fBodyAccel).vel
        /\ fframe' = fframe + 1
        /\ fpc' = IF fframe' < NUM_FRAMES THEN "clear" ELSE "finalize"
  /\ fpc = "finalize" =>
        /\ fframe = NUM_FRAMES /\ fframe' = fframe
        /\ fBodyPos' = fBodyPos /\ fBodyVel' = fBodyVel
        /\ videoWriter' = finalizeVideo(videoWriter)
        /\ fpc' = "done"
  /\ fpc \in {"done", "crashed"} => FALSE
C14_FrameLoop ==
  /\ [][C14_DirectStep /\ C14_FmmStep]_vars
  /\ <>(spc = "done" \/ fpc = "done")
====
